---- MODULE Spec2Model ----
(***************************************************************************)
(* A model of blueprint_toolkit's two stateful parts:                      *)
(*   - RunContext (run_context.py): the `with run_context:` protocol over  *)
(*     an ExitStack of collaborator context managers, with the signal      *)
(*     handlers that raise RunContextInterruptedError;                     *)
(*   - LocalFileCheckpointManager (checkpoint_manager.py): save_checkpoint *)
(*     and load_checkpoint scopes over a directory tree.                   *)
(* Spec is the Run Context driven synchronously, SpecSig adds asynchronous *)
(* signal delivery, SpecStore is the checkpoint store.                     *)
(***************************************************************************)
EXTENDS Integers, Sequences, FiniteSets, TLC

VARIABLES
    \* ---- Run Context ----
    attrs,          \* collaborator -> the dunder methods it exposes
    pc,             \* position of the `with run_context:` statement
    idx,            \* next collaborator of __enter__ (index into EnterOrder)
    callbacks,      \* ExitStack._exit_callbacks, last pushed last
    enterLog,       \* history: collaborators whose __enter__ returned, in order
    relLog,         \* history: release actions invoked, with their result
    exitCalled,     \* history: RunContext.__exit__ was called
    bodyExc,        \* exception_value handed to __exit__ (<<>> is None)
    exc,            \* ExitStack.__exit__'s local exc with its __context__ chain
    suppressed_exc, \* ExitStack.__exit__'s local
    pending_raise,  \* ExitStack.__exit__'s local
    outcome,        \* what the caller of the scope observes
    signals,        \* history: termination signals delivered so far
    \* ---- Checkpoint store ----
    dirs,           \* the checkpoint directories on disk
    now,            \* the filesystem clock (st_mtime granularity)
    nextToken,      \* number of uuid4 tokens drawn so far
    scopes,         \* open save_checkpoint scopes
    closed,         \* history: save_checkpoint scopes that ended
    mostRecent,     \* manager -> its _most_recent_checkpoint_id
    lastLoad,       \* what load_checkpoint resolved, if the latest step was a lookup
    \* ---- Checkpoint identifiers ----
    codec,          \* a checkpoint id being generated and decoded
    \* ---- Run Context lifecycle ----
    lastOp,         \* history: the latest delegated operation carried out
    reenters,       \* history: `with run_context:` statements after the first
    handlers,       \* the process's handler for SIGINT and SIGTERM
    delivered,      \* history: what the latest signal outside a scope did
    \* ---- Load scopes ----
    loadEnd,        \* history: how the latest load_checkpoint scope ended
    \* ---- Metric and progress savers ----
    metrics,        \* MemoryMetricSaver.metrics
    metricCalls,    \* history: the arguments of the save_metrics calls, in order
    current_progress, \* MemoryProgressSaver.current_progress
    progressCalls,  \* history: the arguments of the save_progress calls, in order
    \* ---- Dataset fetcher ----
    fetcher,        \* the attributes of a LocalFileDatasetFetcher
    disk,           \* the files under {base_dir}/datasets
    lastGet,        \* what the latest get_datum_at_index call did
    \* ---- S3 mirror ----
    s3              \* a file path being translated to a key and back

rcVars == <<attrs, pc, idx, callbacks, enterLog, relLog, exitCalled, bodyExc,
            exc, suppressed_exc, pending_raise, outcome, signals>>
storeVars == <<dirs, now, nextToken, scopes, closed, mostRecent, lastLoad>>
codecVars == <<codec>>
sigVars == <<handlers, delivered>>
lifeVars == <<lastOp, reenters, sigVars>>
loadVars == <<loadEnd>>
saverVars == <<metrics, metricCalls, current_progress, progressCalls>>
fetcherVars == <<fetcher, disk, lastGet>>
s3Vars == <<s3>>
extraVars == <<loadVars, saverVars, fetcherVars, s3Vars>>
notRunContext == <<storeVars, codecVars, lifeVars, extraVars>>
notStore == <<rcVars, codecVars, lifeVars, extraVars>>
vars == <<rcVars, storeVars, codecVars, lifeVars, extraVars>>

(***************************************************************************)
(* Helpers                                                                 *)
(***************************************************************************)
Reverse(s) == [i \in 1..Len(s) |-> s[Len(s) + 1 - i]]

Range(s) == {s[i] : i \in 1..Len(s)}

(***************************************************************************)
(* Run Context                                                             *)
(***************************************************************************)
\* The six collaborators handed to RunContext.__init__.
Roles == {"config_loader", "dataset_fetcher", "model_loader",
          "progress_saver", "metric_saver", "checkpoint_manager"}

\* The order in which __enter__ looks at the collaborators.
EnterOrder == <<"config_loader", "model_loader", "progress_saver",
                "metric_saver", "checkpoint_manager">>

\* An exception object: its class and where it was raised.
Err(cls, src) == [cls |-> cls, src |-> src]

Interrupted(src) == Err("RunContextInterruptedError", src)

\* What a collaborator's __exit__ may do: return a false value, return a
\* true value, or raise.
ReleaseResults == {"false", "true", "raise"}

NoOutcome == [kind |-> "none", chain |-> <<>>]
Clean == [kind |-> "clean", chain |-> <<>>]
Raised(chain) == [kind |-> "raised", chain |-> chain]

IsContextManagerOr(c) == "__enter__" \in attrs[c] \/ "__exit__" \in attrs[c]

IsContextManager(c) == "__enter__" \in attrs[c] /\ "__exit__" \in attrs[c]

IsInterrupted(chain) ==
    chain # <<>> /\ chain[1].cls = "RunContextInterruptedError"

(***************************************************************************)
(* Strings are sequences of one-character strings.                         *)
(***************************************************************************)
Digits == <<"0", "1", "2", "3", "4", "5", "6", "7", "8", "9">>

IsDigit(ch) == \E i \in 1..10 : Digits[i] = ch

DigitValue(ch) == (CHOOSE i \in 1..10 : Digits[i] = ch) - 1

\* str(n) for 0 <= n < 100.
IntToStr(n) ==
    IF n < 10 THEN <<Digits[n + 1]>>
    ELSE <<Digits[(n \div 10) + 1], Digits[(n % 10) + 1]>>

RECURSIVE StrToInt(_)
\* int(s) for a string of decimal digits; -1 stands for ValueError.
StrToInt(s) ==
    IF s = <<>> \/ \E i \in 1..Len(s) : ~IsDigit(s[i]) THEN -1
    ELSE IF Len(s) = 1 THEN DigitValue(s[1])
    ELSE 10 * StrToInt(SubSeq(s, 1, Len(s) - 1)) + DigitValue(s[Len(s)])

RECURSIVE Split(_, _)
\* s.split(ch) for a one-character separator.
Split(s, ch) ==
    IF \A i \in 1..Len(s) : s[i] # ch THEN <<s>>
    ELSE LET k == CHOOSE i \in 1..Len(s) :
                      s[i] = ch /\ \A j \in 1..(i - 1) : s[j] # ch
         IN <<SubSeq(s, 1, k - 1)>> \o Split(SubSeq(s, k + 1, Len(s)), ch)

RECURSIVE Join(_, _)
\* ch.join(parts)
Join(parts, ch) ==
    IF parts = <<>> THEN <<>>
    ELSE IF Len(parts) = 1 THEN parts[1]
    ELSE parts[1] \o <<ch>> \o Join(Tail(parts), ch)

\* s.split("__", 1): the split at the leftmost separator.
SplitOnce(s) ==
    LET P == {i \in 1..(Len(s) - 1) : s[i] = "_" /\ s[i + 1] = "_"}
    IN IF P = {} THEN <<s>>
       ELSE LET k == CHOOSE i \in P : \A j \in P : i <= j
            IN <<SubSeq(s, 1, k - 1), SubSeq(s, k + 2, Len(s))>>

\* s.rsplit("__", 1)
RSplitOnce(s) ==
    LET P == {i \in 1..(Len(s) - 1) : s[i] = "_" /\ s[i + 1] = "_"}
    IN IF P = {} THEN <<s>>
       ELSE LET k == CHOOSE i \in P : \A j \in P : j <= i
            IN <<SubSeq(s, 1, k - 1), SubSeq(s, k + 2, Len(s))>>

\* The index of the `]` that closes the class opened by pat[1] = "[", or 0
\* when there is none and the `[` stands for itself. A `]` right after the
\* `[` is a member of the class.
ClassEnd(pat) ==
    LET E == {j \in 3..Len(pat) : pat[j] = "]"}
    IN IF E = {} THEN 0 ELSE CHOOSE j \in E : \A k \in E : j <= k

RECURSIVE FnMatch(_, _)
\* A glob pattern segment against a directory entry's name: `*` stands for
\* any characters, `?` for one, `[seq]` for one character of seq, anything
\* else for itself (no class of the model holds a range or a leading `!`).
FnMatch(pat, name) ==
    IF pat = <<>> THEN name = <<>>
    ELSE IF pat[1] = "*"
         THEN \E k \in 0..Len(name) :
                  FnMatch(Tail(pat), SubSeq(name, k + 1, Len(name)))
    ELSE IF name = <<>> THEN FALSE
    ELSE IF pat[1] = "[" /\ ClassEnd(pat) > 0
         THEN /\ \E j \in 2..(ClassEnd(pat) - 1) : pat[j] = name[1]
              /\ FnMatch(SubSeq(pat, ClassEnd(pat) + 1, Len(pat)), Tail(name))
    ELSE (pat[1] = "?" \/ pat[1] = name[1]) /\ FnMatch(Tail(pat), Tail(name))

(***************************************************************************)
(* Checkpoint store                                                        *)
(***************************************************************************)
\* The run ids of the managers that share one base_dir: a plain one, one
\* holding the hyphen of the id format, one holding a glob character class.
RunIds == {<<"r">>, <<"r", "-", "x">>, <<"r", "[", "x", "]">>}

\* The global_step arguments of save_checkpoint.
Steps == {2, 10}

\* The files a body may write into its checkpoint directory.
Files == {"model.pth"}

MaxSaves == 2

MaxTime == 1

\* str(uuid4()) of the n-th draw: hexadecimal groups joined by hyphens.
Token(n) == <<"a", "-", Digits[n + 1]>>

\* What the body of a save scope may raise: an Exception subclass, or a
\* BaseException that is not an Exception.
BodyErrors == {Err("Error", "body"), Err("KeyboardInterrupt", "body")}

IsException(e) == e.cls \notin {"KeyboardInterrupt", "SystemExit", "GeneratorExit"}

\* No lookup was made by the latest step.
NoLoad == [kind |-> "none", by |-> <<>>, given |-> FALSE, arg |-> <<>>,
           run |-> <<>>, id |-> <<>>, global_step |-> -1, run_id |-> <<>>,
           writing |-> FALSE]

\* The state of the checkpoint store, untouched by the Run Context's steps.
StoreInit ==
    /\ dirs = {}
    /\ now = 0
    /\ nextToken = 0
    /\ scopes = {}
    /\ closed = {}
    /\ mostRecent = [m \in RunIds |-> <<>>]
    /\ lastLoad = NoLoad

RunContextInit ==
    /\ attrs \in [Roles -> SUBSET {"__enter__", "__exit__"}]
    /\ pc = "new"
    /\ idx = 1
    /\ callbacks = <<>>
    /\ enterLog = <<>>
    /\ relLog = <<>>
    /\ exitCalled = FALSE
    /\ bodyExc = <<>>
    /\ exc = <<>>
    /\ suppressed_exc = FALSE
    /\ pending_raise = FALSE
    /\ outcome = NoOutcome
    /\ signals = 0

\* No checkpoint id is being generated or decoded.
NoCodec == [phase |-> "idle", global_step |-> 0, run_id |-> <<>>,
            token |-> <<>>, id |-> <<>>,
            decoded |-> [global_step |-> -1, run_id |-> <<>>]]

CodecIdle == codec = NoCodec

\* No delegated operation was carried out yet.
NoOp == [op |-> "none", at |-> "none"]

\* The first `with run_context:` statement is still to come.
\* A constructor that leaves the handlers of the process as they are.
NoSignalSignal(previous) == previous

\* signal.signal(signal.SIGINT, handle_interruption) and
\* signal.signal(signal.SIGTERM, handle_interruption) in __init__
SignalSignal(previous) == "handle_interruption"

\* No signal was delivered outside a scope.
NoDelivery == [at |-> "none", sig |-> "none", observed |-> NoOutcome]

LifeInit ==
    /\ lastOp = NoOp
    /\ reenters = 0
    /\ handlers = SignalSignal("default")
    /\ delivered = NoDelivery

\* No load scope has ended yet.
NoEnd == [kind |-> "none", n |-> 0, raised |-> <<>>, observed |-> <<>>,
          run |-> <<>>, id |-> <<>>]

LoadInit == loadEnd = NoEnd

\* MemoryMetricSaver.__init__ sets metrics to []; MemoryProgressSaver has no
\* __init__, so current_progress is not set until the first save_progress.
Unset == [set |-> FALSE, v |-> <<>>]

SaversInit ==
    /\ metrics = <<>>
    /\ metricCalls = <<>>
    /\ current_progress = Unset
    /\ progressCalls = <<>>

\* split=None
NoneSplit == "<None>"

\* LocalFileDatasetFetcher.__init__: snapshot_id and split are set, and
\* neither _num_datums nor _cached_datum_index_to_id is.
NewFetcher == [snapshot_id |-> "", split |-> NoneSplit, prepared |-> FALSE,
               index_to_id |-> <<>>, num_datums |-> 0]

\* No get_datum_at_index call was made yet.
NoGet == [kind |-> "none", index |-> 0, datum_id |-> "none", reads |-> {}]

FetcherInit ==
    /\ fetcher = NewFetcher
    /\ lastGet = NoGet

SnapshotIds == {"", "s"}
Splits == {NoneSplit, "train"}

\* str(split)
SplitStr(split) == IF split = NoneSplit THEN "None" ELSE split

\* file_root / snapshot_id / str(split)
SplitDir(snapshot_id, split) == <<snapshot_id, SplitStr(split)>>

SplitDirs == {SplitDir(i, sp) : i \in SnapshotIds, sp \in Splits}

\* No directory under {base_dir}/datasets has entries.
NoDisk == [k \in SplitDirs |-> {}]

\* No file path is being translated.
NoS3 == [phase |-> "idle", sep |-> "/", key_prefix |-> <<>>, p |-> <<>>,
         file_path |-> <<>>, key |-> <<>>, back |-> <<>>]

ExtraIdle ==
    /\ LoadInit
    /\ SaversInit
    /\ FetcherInit
    /\ disk = NoDisk
    /\ s3 = NoS3

Init == RunContextInit /\ StoreInit /\ CodecIdle /\ LifeInit /\ ExtraIdle

\* `with run_context:` starts: RunContext.__enter__ enters its ExitStack.
WithBegin ==
    /\ pc = "new"
    /\ pc' = "entering"
    /\ idx' = 1
    /\ UNCHANGED <<attrs, callbacks, enterLog, relLog, exitCalled, bodyExc,
                   exc, suppressed_exc, pending_raise, outcome, signals>>
    /\ UNCHANGED notRunContext

\* A collaborator without the capability is skipped.
EnterSkip ==
    /\ pc = "entering"
    /\ idx <= Len(EnterOrder)
    /\ ~IsContextManager(EnterOrder[idx])
    /\ idx' = idx + 1
    /\ UNCHANGED <<attrs, pc, callbacks, enterLog, relLog, exitCalled, bodyExc,
                   exc, suppressed_exc, pending_raise, outcome, signals>>
    /\ UNCHANGED notRunContext

\* ExitStack.enter_context: the collaborator's __enter__ returns and its
\* __exit__ is pushed.
EnterContext(c) ==
    /\ enterLog' = Append(enterLog, c)
    /\ callbacks' = Append(callbacks, c)

EnterOk ==
    /\ pc = "entering"
    /\ idx <= Len(EnterOrder)
    /\ IsContextManager(EnterOrder[idx])
    /\ EnterContext(EnterOrder[idx])
    /\ idx' = idx + 1
    /\ UNCHANGED <<attrs, pc, relLog, exitCalled, bodyExc,
                   exc, suppressed_exc, pending_raise, outcome, signals>>
    /\ UNCHANGED notRunContext

\* The collaborator's __enter__ raises: nothing is pushed, the error leaves
\* RunContext.__enter__, and the with statement never calls __exit__.
EnterFail ==
    /\ pc = "entering"
    /\ idx <= Len(EnterOrder)
    /\ IsContextManager(EnterOrder[idx])
    /\ pc' = "done"
    /\ outcome' = Raised(<<Err("EnterError", EnterOrder[idx])>>)
    /\ UNCHANGED <<attrs, idx, callbacks, enterLog, relLog, exitCalled, bodyExc,
                   exc, suppressed_exc, pending_raise, signals>>
    /\ UNCHANGED notRunContext

\* __enter__ returns self: the scope is active.
EnterReturn ==
    /\ pc = "entering"
    /\ idx > Len(EnterOrder)
    /\ pc' = "body"
    /\ UNCHANGED <<attrs, idx, callbacks, enterLog, relLog, exitCalled, bodyExc,
                   exc, suppressed_exc, pending_raise, outcome, signals>>
    /\ UNCHANGED notRunContext

\* The with statement calls RunContext.__exit__ with the body's exception,
\* which calls ExitStack.__exit__ with it.
CallExit(chain) ==
    /\ pc' = "exiting"
    /\ exitCalled' = TRUE
    /\ bodyExc' = chain
    /\ exc' = chain
    /\ suppressed_exc' = FALSE
    /\ pending_raise' = FALSE
    /\ UNCHANGED <<attrs, idx, callbacks, enterLog, relLog, outcome, signals>>
    /\ UNCHANGED notRunContext

BodyReturns ==
    /\ pc = "body"
    /\ CallExit(<<>>)

\* The body raises an unrelated error, or the interruption condition (the
\* signal handler ran while the body was executing).
BodyRaises ==
    /\ pc = "body"
    /\ \E e \in {Err("Error", "body"), Interrupted("body")} : CallExit(<<e>>)

\* One turn of ExitStack.__exit__'s loop, for callback c with result r: a
\* true return clears the exception, a raise replaces it. The new exception
\* gets the previous one as its __context__ only when __exit__ was called
\* for a body that raised (_fix_exception_context rewires a context that
\* ends at the exception being handled, and leaves an empty one alone).
ExitStackExc(c, r) ==
    CASE r = "true" -> <<>>
      [] r = "raise" -> <<Err("ReleaseError", c)>> \o
                            (IF bodyExc = <<>> THEN <<>> ELSE exc)
      [] OTHER -> exc

ExitStackSuppressed(r) == IF r = "true" THEN TRUE ELSE suppressed_exc

ExitStackPending(r) ==
    CASE r = "true" -> FALSE
      [] r = "raise" -> TRUE
      [] OTHER -> pending_raise

\* A stack that keeps a callback that raised.
ExitStackRestKeepRaised(r) ==
    IF r = "raise" THEN callbacks ELSE SubSeq(callbacks, 1, Len(callbacks) - 1)

\* The callbacks left after the loop popped one and called it.
ExitStackRestStopOnRaise(r) ==
    IF r = "raise" THEN <<>> ELSE SubSeq(callbacks, 1, Len(callbacks) - 1)

ExitStackRest(r) == SubSeq(callbacks, 1, Len(callbacks) - 1)

ExitStep ==
    /\ pc = "exiting"
    /\ callbacks # <<>>
    /\ \E r \in ReleaseResults :
        LET c == callbacks[Len(callbacks)] IN
        /\ relLog' = Append(relLog, [c |-> c, r |-> r])
        /\ callbacks' = ExitStackRest(r)
        /\ exc' = ExitStackExc(c, r)
        /\ suppressed_exc' = ExitStackSuppressed(r)
        /\ pending_raise' = ExitStackPending(r)
    /\ UNCHANGED <<attrs, pc, idx, enterLog, exitCalled, bodyExc, outcome,
                   signals>>
    /\ UNCHANGED notRunContext

\* What ExitStack.__exit__ returns when nothing is left to raise.
ExitStackReturn == bodyExc # <<>> /\ suppressed_exc

\* What RunContext.__exit__ returns, given ExitStack.__exit__'s return.
RunContextExitReturnNoCheck(value, exit_stack_exit) == exit_stack_exit

RunContextExitReturn(value, exit_stack_exit) ==
    IF IsInterrupted(value) THEN TRUE ELSE exit_stack_exit

\* The with statement: the body's exception is re-raised unless __exit__
\* returned a true value.
WithResult(value, ret) ==
    IF value = <<>> \/ ret THEN Clean ELSE Raised(value)

\* The unwinding is over: ExitStack.__exit__ raises the pending exception,
\* which leaves RunContext.__exit__ as it is, or returns.
ExitFinish ==
    /\ pc = "exiting"
    /\ callbacks = <<>>
    /\ pc' = "done"
    /\ outcome' = IF pending_raise
                  THEN Raised(exc)
                  ELSE WithResult(bodyExc,
                           RunContextExitReturn(bodyExc, ExitStackReturn))
    /\ UNCHANGED <<attrs, idx, callbacks, enterLog, relLog, exitCalled,
                   bodyExc, exc, suppressed_exc, pending_raise, signals>>
    /\ UNCHANGED notRunContext

Next ==
    \/ WithBegin
    \/ EnterSkip
    \/ EnterOk
    \/ EnterFail
    \/ EnterReturn
    \/ BodyReturns
    \/ BodyRaises
    \/ ExitStep
    \/ ExitFinish

Spec == Init /\ [][Next]_vars

(***************************************************************************)
(* Asynchronous signals: handle_interruption raises                        *)
(* RunContextInterruptedError in the main thread between two bytecodes,    *)
(* wherever the program is.                                                *)
(***************************************************************************)
MaxSignals == 2

\* A signal while __enter__ runs: in RunContext.__enter__'s own frame or
\* inside the collaborator's __enter__ (nothing pushed), or after the
\* collaborator's __enter__ returned and before its __exit__ is pushed.
SignalInEnter ==
    /\ pc = "entering"
    /\ signals < MaxSignals
    /\ signals' = signals + 1
    /\ pc' = "done"
    /\ outcome' = Raised(<<Interrupted("signal")>>)
    /\ \/ UNCHANGED enterLog
       \/ /\ idx <= Len(EnterOrder)
          /\ IsContextManager(EnterOrder[idx])
          /\ enterLog' = Append(enterLog, EnterOrder[idx])
    /\ UNCHANGED <<attrs, idx, callbacks, relLog, exitCalled, bodyExc,
                   exc, suppressed_exc, pending_raise>>
    /\ UNCHANGED notRunContext

\* A signal while a release action runs: the ExitStack sees the callback
\* raise RunContextInterruptedError and goes on unwinding.
SignalInRelease ==
    /\ pc = "exiting"
    /\ callbacks # <<>>
    /\ signals < MaxSignals
    /\ signals' = signals + 1
    /\ LET c == callbacks[Len(callbacks)] IN
        /\ relLog' = Append(relLog, [c |-> c, r |-> "interrupted"])
        /\ callbacks' = ExitStackRest("raise")
        /\ exc' = <<Interrupted(c)>> \o (IF bodyExc = <<>> THEN <<>> ELSE exc)
        /\ suppressed_exc' = ExitStackSuppressed("raise")
        /\ pending_raise' = ExitStackPending("raise")
    /\ UNCHANGED <<attrs, pc, idx, enterLog, exitCalled, bodyExc, outcome>>
    /\ UNCHANGED notRunContext

\* A signal in ExitStack.__exit__'s or RunContext.__exit__'s own frame,
\* between two callbacks or after the last: the error leaves __exit__ and
\* the callbacks still on the stack are never called.
SignalInExit ==
    /\ pc = "exiting"
    /\ signals < MaxSignals
    /\ signals' = signals + 1
    /\ pc' = "done"
    /\ outcome' = Raised(<<Interrupted("signal")>> \o bodyExc)
    /\ UNCHANGED <<attrs, idx, callbacks, enterLog, relLog, exitCalled,
                   bodyExc, exc, suppressed_exc, pending_raise>>
    /\ UNCHANGED notRunContext

NextSig ==
    \/ Next
    \/ SignalInEnter
    \/ SignalInRelease
    \/ SignalInExit

SpecSig == Init /\ [][NextSig]_vars

(***************************************************************************)
(* Checkpoint store: save_checkpoint and load_checkpoint                   *)
(***************************************************************************)
\* f"{global_step}-{self.run_id}__{str(uuid4())}"
CheckpointId(global_step, run_id, token) ==
    IntToStr(global_step) \o <<"-">> \o run_id \o <<"_", "_">> \o token

\* {base_dir}/runs/{run_id}/checkpoints/{id}
CheckpointPath(run_id, id) == [run |-> run_id, name |-> id]

DirsAt(p) == {d \in dirs : d.run = p.run /\ d.name = p.name}

\* os.makedirs(path, exist_ok=True)
MakeDirs(p) ==
    IF DirsAt(p) # {} THEN dirs
    ELSE dirs \cup {[run |-> p.run, name |-> p.name, mtime |-> now, files |-> {}]}

\* shutil.rmtree(path)
RmTree(p) == dirs \ DirsAt(p)

\* save_checkpoint up to its yield: a fresh id, the directory created.
SaveOpen ==
    /\ nextToken < MaxSaves
    /\ \E m \in RunIds, global_step \in Steps :
        LET checkpoint_id == CheckpointId(global_step, m, Token(nextToken))
            checkpoint_path == CheckpointPath(m, checkpoint_id)
        IN /\ mostRecent' = [mostRecent EXCEPT ![m] = checkpoint_id]
           /\ dirs' = MakeDirs(checkpoint_path)
           /\ scopes' = scopes \cup {checkpoint_path}
    /\ nextToken' = nextToken + 1
    /\ lastLoad' = NoLoad
    /\ UNCHANGED <<now, closed>>
    /\ UNCHANGED notStore

\* The body writes a file into the directory it was handed; the directory's
\* modification time becomes the current time.
BodyWrite ==
    /\ \E p \in scopes, f \in Files :
        \E d \in DirsAt(p) :
            /\ f \notin d.files
            /\ dirs' = (dirs \ {d}) \cup
                         {[d EXCEPT !.files = d.files \cup {f}, !.mtime = now]}
    /\ lastLoad' = NoLoad
    /\ UNCHANGED <<now, nextToken, scopes, closed, mostRecent>>
    /\ UNCHANGED notStore

\* The body ends without raising: the generator is resumed after its yield
\* and returns; the directory stays.
SaveCommit ==
    /\ \E p \in scopes :
        /\ scopes' = scopes \ {p}
        /\ closed' = closed \cup
               {[run |-> p.run, name |-> p.name, raised |-> <<>>, observed |-> <<>>]}
    /\ lastLoad' = NoLoad
    /\ UNCHANGED <<dirs, now, nextToken, mostRecent>>
    /\ UNCHANGED notStore

\* A handler that removes nothing.
RollbackNever(p, e) == dirs

\* The directories left by `except Exception as e: shutil.rmtree(...)` when
\* the body raised e: only an Exception reaches the handler.
Rollback(p, e) == IF IsException(e) THEN RmTree(p) ELSE dirs

\* `raise e`, or e passing through the generator unhandled.
Reraise(e) == <<e>>

\* The body raises e, which is thrown into the generator at its yield.
SaveRaise ==
    /\ \E p \in scopes, e \in BodyErrors :
        /\ dirs' = Rollback(p, e)
        /\ scopes' = scopes \ {p}
        /\ closed' = closed \cup
               {[run |-> p.run, name |-> p.name, raised |-> <<e>>,
                 observed |-> Reraise(e)]}
    /\ lastLoad' = NoLoad
    /\ UNCHANGED <<now, nextToken, mostRecent>>
    /\ UNCHANGED notStore

\* Time passes: later writes get a later st_mtime.
Tick ==
    /\ now < MaxTime
    /\ now' = now + 1
    /\ lastLoad' = NoLoad
    /\ UNCHANGED <<dirs, nextToken, scopes, closed, mostRecent>>
    /\ UNCHANGED notStore

\* The decode steps of load_checkpoint for a directory name; global_step -1
\* stands for the ValueError of a name that does not decode.
Decode(name) ==
    LET sp == RSplitOnce(name)
    IN IF Len(sp) # 2 THEN [global_step |-> -1, run_id |-> <<>>]
       ELSE LET parts == Split(sp[1], "-")
            IN [global_step |-> StrToInt(parts[1]),
                run_id |-> Join(Tail(parts), "-")]

LoadFailed(kind, m, given, arg) ==
    [kind |-> kind, by |-> m, given |-> given, arg |-> arg,
     run |-> <<>>, id |-> <<>>, global_step |-> -1, run_id |-> <<>>,
     writing |-> FALSE]

\* A lookup that reports a name that does not decode as a missing checkpoint.
LoadYieldOrNotFound(m, given, arg, d) ==
    LET dec == Decode(d.name)
    IN IF dec.global_step = -1
       THEN LoadFailed("CheckpointNotFoundError", m, given, arg)
       ELSE [kind |-> "ok", by |-> m, given |-> given, arg |-> arg,
             run |-> d.run, id |-> d.name, global_step |-> dec.global_step,
             run_id |-> dec.run_id,
             writing |-> CheckpointPath(d.run, d.name) \in scopes]

\* What load_checkpoint yields for the directory d it resolved.
LoadYield(m, given, arg, d) ==
    LET dec == Decode(d.name)
    IN IF dec.global_step = -1 THEN LoadFailed("ValueError", m, given, arg)
       ELSE [kind |-> "ok", by |-> m, given |-> given, arg |-> arg,
             run |-> d.run, id |-> d.name, global_step |-> dec.global_step,
             run_id |-> dec.run_id,
             writing |-> CheckpointPath(d.run, d.name) \in scopes]

\* runs_path.glob("*/checkpoints/*"): the entries of every run.
CheckpointsOfAnyRun(ds, m) == ds

\* checkpoints_path.glob("*") for the manager's own run, over the
\* directories ds.
CheckpointsOf(ds, m) == {d \in ds : d.run = m}

\* A number that orders strings of one or two digits as text orders them.
TextRank(s) ==
    IF StrToInt(s) = -1 THEN -1
    ELSE IF Len(s) = 1 THEN 11 * (DigitValue(s[1]) + 1)
    ELSE 11 * (DigitValue(s[1]) + 1) + DigitValue(s[2]) + 1

\* key=lambda c: (c.stat().st_mtime, c.name.split("-")[0])
SortKeyText(d) == <<d.mtime, TextRank(Split(d.name, "-")[1])>>

\* key=lambda c: (c.stat().st_mtime, int(c.name.split("-")[0]))
SortKey(d) == <<d.mtime, StrToInt(Split(d.name, "-")[1])>>

KeyLess(a, b) == a[1] < b[1] \/ (a[1] = b[1] /\ a[2] < b[2])

\* The directories max() may return: those no other one's key exceeds
\* (which of several with equal keys is the glob's order).
MaxByKey(ds) == {d \in ds : \A e \in ds : ~KeyLess(SortKey(d), SortKey(e))}

\* What load_checkpoint() of manager m may end with over the directories ds.
LatestResults(ds, m) ==
    LET checkpoint_paths == CheckpointsOf(ds, m) IN
    IF checkpoint_paths = {}
    THEN {LoadFailed("CheckpointNotFoundError", m, FALSE, <<>>)}
    ELSE IF \E d \in checkpoint_paths : SortKey(d)[2] = -1
    THEN {LoadFailed("ValueError", m, FALSE, <<>>)}
    ELSE {LoadYield(m, FALSE, <<>>, d) : d \in MaxByKey(checkpoint_paths)}

\* load_checkpoint(): the latest checkpoint of the manager's run.
LoadLatest ==
    /\ \E m \in RunIds : lastLoad' \in LatestResults(dirs, m)
    /\ UNCHANGED <<dirs, now, nextToken, scopes, closed, mostRecent>>
    /\ UNCHANGED notStore

\* runs_path.glob(f"*/checkpoints/{id}"): every run's checkpoints directory,
\* over the directories ds.
GlobById(ds, id) == {d \in ds : FnMatch(id, d.name)}

\* The ids a caller may ask for: those of the directories made so far, one
\* that was never made, and one holding a pattern character.
LoadIds ==
    {d.name : d \in dirs} \cup {c.name : c \in closed}
        \cup {<<"n", "o">>, <<"2", "-", "*">>}

\* What load_checkpoint(id) of manager m may end with over the directories ds.
ByIdResults(ds, m, id) ==
    LET checkpoint_paths == GlobById(ds, id) IN
    IF checkpoint_paths = {}
    THEN {LoadFailed("CheckpointNotFoundError", m, TRUE, id)}
    ELSE IF Cardinality(checkpoint_paths) > 1
    THEN {LoadFailed("RuntimeError", m, TRUE, id)}
    ELSE {LoadYield(m, TRUE, id, d) : d \in checkpoint_paths}

\* load_checkpoint(id): the checkpoint with that id, of any run.
LoadById ==
    /\ \E m \in RunIds, id \in LoadIds : lastLoad' \in ByIdResults(dirs, m, id)
    /\ UNCHANGED <<dirs, now, nextToken, scopes, closed, mostRecent>>
    /\ UNCHANGED notStore

\* A Run Context that is constructed and never entered.
RunContextIdle ==
    /\ attrs = [c \in Roles |-> {}]
    /\ pc = "new"
    /\ idx = 1
    /\ callbacks = <<>>
    /\ enterLog = <<>>
    /\ relLog = <<>>
    /\ exitCalled = FALSE
    /\ bodyExc = <<>>
    /\ exc = <<>>
    /\ suppressed_exc = FALSE
    /\ pending_raise = FALSE
    /\ outcome = NoOutcome
    /\ signals = 0

InitStore == RunContextIdle /\ StoreInit /\ CodecIdle /\ LifeInit /\ ExtraIdle

NextStore ==
    \/ SaveOpen
    \/ BodyWrite
    \/ SaveCommit
    \/ SaveRaise
    \/ Tick
    \/ LoadLatest
    \/ LoadById

SpecStore == InitStore /\ [][NextStore]_vars

(***************************************************************************)
(* Save scopes opened through run_context.save_checkpoint inside the body  *)
(* of `with run_context:`                                                  *)
(***************************************************************************)
\* The checkpoint manager is the LocalFileCheckpointManager, which is no
\* context manager itself; the config loader and the metric saver may be.
LocalRun ==
    /\ \A c \in Roles : attrs[c] \in {{}, {"__enter__", "__exit__"}}
    /\ \A c \in Roles \ {"config_loader", "metric_saver"} : attrs[c] = {}

InitNested == Init /\ LocalRun

\* One save scope at a time is opened by the body.
NestedSaveOpen == pc = "body" /\ scopes = {} /\ SaveOpen

NestedBodyWrite == pc = "body" /\ BodyWrite

NestedSaveCommit == pc = "body" /\ SaveCommit

\* What the body of a nested save scope may raise: an unrelated error, or
\* the interruption condition (the signal handler ran while it executed).
NestedErrors == {Err("Error", "save"), Interrupted("save")}

\* The body of the save scope raises e: the manager's generator handles it
\* as SaveRaise does, what leaves it passes through the with statement of
\* RunContext.save_checkpoint, ends the body of `with run_context:`, and is
\* what RunContext.__exit__ is called with.
NestedSaveRaise ==
    /\ pc = "body"
    /\ \E p \in scopes, e \in NestedErrors :
        /\ dirs' = Rollback(p, e)
        /\ scopes' = scopes \ {p}
        /\ closed' = closed \cup
               {[run |-> p.run, name |-> p.name, raised |-> <<e>>,
                 observed |-> Reraise(e)]}
        /\ bodyExc' = Reraise(e)
        /\ exc' = Reraise(e)
    /\ pc' = "exiting"
    /\ exitCalled' = TRUE
    /\ suppressed_exc' = FALSE
    /\ pending_raise' = FALSE
    /\ lastLoad' = NoLoad
    /\ UNCHANGED <<attrs, idx, callbacks, enterLog, relLog, outcome, signals>>
    /\ UNCHANGED <<now, nextToken, mostRecent>>
    /\ UNCHANGED <<codecVars, lifeVars, extraVars>>

\* The body of `with run_context:` ends outside of any save scope.
NestedBodyReturns == scopes = {} /\ BodyReturns

NestedBodyRaises == scopes = {} /\ BodyRaises

NextNested ==
    \/ WithBegin
    \/ EnterSkip
    \/ EnterOk
    \/ EnterFail
    \/ EnterReturn
    \/ NestedSaveOpen
    \/ NestedBodyWrite
    \/ NestedSaveCommit
    \/ NestedSaveRaise
    \/ NestedBodyReturns
    \/ NestedBodyRaises
    \/ ExitStep
    \/ ExitFinish

SpecNested == InitNested /\ [][NextNested]_vars

(***************************************************************************)
(* The life of one Run Context: delegated operations and `with` statements *)
(* in any order                                                            *)
(***************************************************************************)
DelegatedOps == {"load_config", "load_model", "save_metrics", "save_progress",
                 "save_checkpoint", "load_checkpoint"}

\* The caller's code runs before the with statement, in its body and after
\* it, and may call a delegated operation there. The method hands the call
\* to its collaborator without looking at the state of the Run Context.
Delegate ==
    /\ pc \in {"new", "body", "done"}
    /\ \E op \in DelegatedOps : lastOp' = [op |-> op, at |-> pc]
    /\ UNCHANGED <<rcVars, storeVars, codecVars, reenters, sigVars, extraVars>>

MaxReEnters == 1

\* Another `with run_context:` statement on the same object: __enter__ runs
\* as the first time, over the callbacks the ExitStack still holds.
ReEnter ==
    /\ pc = "done"
    /\ reenters < MaxReEnters
    /\ reenters' = reenters + 1
    /\ pc' = "entering"
    /\ idx' = 1
    /\ exitCalled' = FALSE
    /\ bodyExc' = <<>>
    /\ exc' = <<>>
    /\ suppressed_exc' = FALSE
    /\ pending_raise' = FALSE
    /\ outcome' = NoOutcome
    /\ UNCHANGED <<attrs, callbacks, enterLog, relLog, signals>>
    /\ UNCHANGED <<storeVars, codecVars, lastOp, sigVars, extraVars>>

InitLife == Init /\ LocalRun

NextLife == Next \/ Delegate \/ ReEnter

SpecLife == InitLife /\ [][NextLife]_vars

(***************************************************************************)
(* Lookups over a directory tree that other programs wrote to              *)
(***************************************************************************)
\* The runs whose checkpoint roots hold entries.
TreeRuns == {<<"r">>, <<"r", "-", "x">>}

\* The names of those entries: two generated ids, a name without the double
\* underscore, and a name whose leading segment is no integer.
TreeNames ==
    {CheckpointId(2, <<"r">>, Token(0)), CheckpointId(10, <<"r">>, Token(1)),
     <<"2", "-", "r">>, <<"x", "-", "r", "_", "_", "a">>}

MaxEntries == 3

\* An entry appears under {base_dir}/runs/{run_id}/checkpoints, made by an
\* earlier process or by hand, with any modification time.
Mkdir ==
    /\ Cardinality(dirs) < MaxEntries
    /\ \E m \in TreeRuns, name \in TreeNames, t \in 0..MaxTime :
        /\ DirsAt(CheckpointPath(m, name)) = {}
        /\ dirs' = dirs \cup
                     {[run |-> m, name |-> name, mtime |-> t, files |-> {}]}
    /\ lastLoad' = NoLoad
    /\ UNCHANGED <<now, nextToken, scopes, closed, mostRecent>>
    /\ UNCHANGED notStore

NextTree == Mkdir \/ LoadLatest \/ LoadById

SpecTree == InitStore /\ [][NextTree]_vars

(***************************************************************************)
(* Checkpoint identifiers: generated by save_checkpoint, decoded by        *)
(* load_checkpoint                                                         *)
(***************************************************************************)
MaxRunIdLen == 3

\* The characters of a run id: a letter, and the two characters the id
\* format uses as separators.
RunIdChars == {"r", "-", "_"}

\* Every run id of at most MaxRunIdLen characters, the empty one included.
CodecRunIds == UNION {[1..k -> RunIdChars] : k \in 0..MaxRunIdLen}

\* global_step arguments of one and of two digits.
CodecSteps == {0, 7, 10, 42}

CodecTokens == {Token(0), Token(1)}

\* A manager with some run_id is asked to save at some global_step, and
\* uuid4 draws some token.
CodecInit ==
    \E global_step \in CodecSteps, run_id \in CodecRunIds, token \in CodecTokens :
        codec = [NoCodec EXCEPT !.phase = "input", !.global_step = global_step,
                                !.run_id = run_id, !.token = token]

\* save_checkpoint generates the id.
Encode ==
    /\ codec.phase = "input"
    /\ codec' = [codec EXCEPT
                    !.phase = "encoded",
                    !.id = CheckpointId(codec.global_step, codec.run_id, codec.token)]
    /\ UNCHANGED <<rcVars, storeVars, lifeVars, extraVars>>

\* load_checkpoint decodes the name of the directory it resolved.
DecodeId ==
    /\ codec.phase = "encoded"
    /\ codec' = [codec EXCEPT !.phase = "decoded", !.decoded = Decode(codec.id)]
    /\ UNCHANGED <<rcVars, storeVars, lifeVars, extraVars>>

InitCodec == RunContextIdle /\ StoreInit /\ CodecInit /\ LifeInit /\ ExtraIdle

NextCodec == Encode \/ DecodeId

SpecCodec == InitCodec /\ [][NextCodec]_vars

(***************************************************************************)
(* Run Context: properties                                                 *)
(***************************************************************************)
HasBothEnterAndExit(c) == {"__enter__", "__exit__"} \subseteq attrs[c]

\* The collaborators of the declared order that are scoped resources.
DeclaredScoped == SelectSeq(EnterOrder, HasBothEnterAndExit)

\* The collaborators whose release action was invoked, in invocation order.
RelNames == [i \in 1..Len(relLog) |-> relLog[i].c]

Failed(i) == relLog[i].r \in {"raise", "interrupted"}

FailedRels == {i \in 1..Len(relLog) : Failed(i)}

\* The last release action that raised or returned a true value (0: none).
LastDecisive ==
    LET D == {i \in 1..Len(relLog) : relLog[i].r # "false"}
    IN IF D = {} THEN 0 ELSE CHOOSE i \in D : \A j \in D : j <= i

FirstFailed == CHOOSE i \in FailedRels : \A j \in FailedRels : i <= j

LastFailed == CHOOSE i \in FailedRels : \A j \in FailedRels : j <= i

ExitDone == pc = "done" /\ exitCalled

\* C3: once __enter__ has returned, the collaborators entered are exactly
\* the scoped ones among config loader, model loader, progress saver, metric
\* saver and checkpoint manager, in that order, and never the dataset
\* fetcher; once __exit__ has ended after a body that completed or raised an
\* unrelated error, the release actions invoked are exactly those of the
\* entered collaborators, in reverse order.
C3_EnterInOrderExitInReverse ==
    /\ "dataset_fetcher" \notin Range(enterLog)
    /\ (pc \in {"body", "exiting"} \/ ExitDone) => enterLog = DeclaredScoped
    /\ (ExitDone /\ ~IsInterrupted(bodyExc)) => RelNames = Reverse(enterLog)

\* Three or more collaborators of which some are not scoped, two or more are,
\* and the body raised an unrelated error.
C3_Witness ==
    /\ ExitDone
    /\ bodyExc = <<Err("Error", "body")>>
    /\ Len(enterLog) >= 2
    /\ Len(enterLog) < Len(EnterOrder)
    /\ HasBothEnterAndExit("dataset_fetcher")
    /\ RelNames = Reverse(enterLog)

\* C4 as stated: after the interruption condition was raised in the body,
\* every entered collaborator is released and the scope exits cleanly.
C4_InterruptionAlwaysClean ==
    (ExitDone /\ IsInterrupted(bodyExc)) =>
        /\ RelNames = Reverse(enterLog)
        /\ outcome = Clean

\* C4 amended: after the interruption condition was raised in the body,
\* every entered collaborator is released, and the scope exits cleanly
\* unless a release action raised and no release action invoked after it
\* returned a true value; then that release failure is what the caller sees.
C4_InterruptionCleanUnlessReleaseFails ==
    (ExitDone /\ IsInterrupted(bodyExc)) =>
        /\ RelNames = Reverse(enterLog)
        /\ IF LastDecisive # 0 /\ Failed(LastDecisive)
           THEN /\ outcome.kind = "raised"
                /\ outcome.chain[1] = Err("ReleaseError", relLog[LastDecisive].c)
           ELSE outcome = Clean

C4_Witness ==
    /\ ExitDone
    /\ IsInterrupted(bodyExc)
    /\ Len(relLog) >= 2
    /\ \A i \in 1..Len(relLog) : relLog[i].r = "false"
    /\ outcome = Clean

\* C5 as stated: whenever a termination signal was delivered between the
\* start of Enter and the end of Exit, every collaborator entered so far has
\* been released in reverse order when the scope is over, and the caller
\* does not see the interruption condition as a failure.
C5_SignalAlwaysUnwoundAndHandled ==
    (pc = "done" /\ (signals > 0 \/ IsInterrupted(bodyExc))) =>
        /\ RelNames = Reverse(enterLog)
        /\ ~(outcome.kind = "raised" /\ IsInterrupted(outcome.chain))

\* C6 as stated: when the scope is over, whatever failed, every collaborator
\* that was entered has been released, in reverse order of entry.
C6_EnteredAlwaysReleased ==
    pc = "done" => RelNames = Reverse(enterLog)

\* C7 as stated: a body error other than the interruption condition always
\* reaches the caller as a failure, whatever the release actions return.
C7_OnlyInterruptionSwallowed ==
    (ExitDone /\ bodyExc # <<>> /\ ~IsInterrupted(bodyExc)) =>
        outcome.kind = "raised"

\* C8 as stated: when the body raised and a release action raised too, the
\* caller observes a failure from which the first release failure and the
\* body's error are both retrievable.
C8_ReleaseFailureNotMasked ==
    (ExitDone /\ bodyExc # <<>> /\ FailedRels # {}) =>
        /\ outcome.kind = "raised"
        /\ bodyExc[1] \in Range(outcome.chain)
        /\ Err("ReleaseError", relLog[FirstFailed].c) \in Range(outcome.chain)

\* C8 holds of every run in which no release action returns a true value.
C8_HoldsWithoutSuppression ==
    (\A i \in 1..Len(relLog) : relLog[i].r # "true") => C8_ReleaseFailureNotMasked

\* C9 as stated: after a body that succeeded, the failure the caller sees
\* is the one of the release action that failed first.
C9_FirstUnwindFailurePropagated ==
    (ExitDone /\ bodyExc = <<>> /\ outcome.kind = "raised") =>
        outcome.chain[1] = Err("ReleaseError", relLog[FirstFailed].c)

\* What the code does instead of C9: the caller sees the failure of the
\* release action that failed last, alone (the earlier failures are not
\* chained to it), unless a release action invoked after it returned a true
\* value, and then the caller sees no failure.
C9_LastUnwindFailureAlone ==
    (ExitDone /\ bodyExc = <<>> /\ FailedRels # {}) =>
        IF relLog[LastDecisive].r = "true"
        THEN outcome = Clean
        ELSE outcome = Raised(<<Err("ReleaseError", relLog[LastFailed].c)>>)

\* C10: once a release action has raised, the unwinding goes on: the
\* callbacks still on the stack are those of the collaborators entered
\* before the ones released so far, and when __exit__ is over every entered
\* collaborator's release action has been invoked, in reverse order.
C10_FailingReleaseDoesNotStopUnwinding ==
    \A i \in 1..Len(relLog) : relLog[i].r = "raise" =>
        /\ pc = "exiting" =>
            /\ callbacks = SubSeq(enterLog, 1, Len(enterLog) - Len(relLog))
            /\ RelNames = SubSeq(Reverse(enterLog), 1, Len(relLog))
        /\ pc = "done" => RelNames = Reverse(enterLog)

C10_Witness ==
    /\ ExitDone
    /\ Len(relLog) >= 3
    /\ relLog[1].r = "raise"
    /\ RelNames = Reverse(enterLog)

\* The save scope c, whose body raised the interruption condition, removed
\* its directory and let the condition pass, and RunContext.__exit__ was
\* called with it.
RolledBackAndReraised(c) ==
    /\ DirsAt(CheckpointPath(c.run, c.name)) = {}
    /\ c.observed = c.raised
    /\ exitCalled
    /\ bodyExc = c.raised

\* C16 as stated: an interruption raised inside a save scope nested in an
\* active Run Context is rolled back and re-raised by the save scope, the
\* Run Context then releases the entered collaborators in reverse order,
\* and the caller sees a clean exit.
C16_InterruptedSaveAlwaysClean ==
    \A c \in closed : IsInterrupted(c.raised) =>
        /\ RolledBackAndReraised(c)
        /\ ExitDone => /\ RelNames = Reverse(enterLog)
                       /\ outcome = Clean

\* C16 amended: the same, with a clean exit unless a release action raised
\* and no release action invoked after it returned a true value; then that
\* release failure is what the caller sees.
C16_InterruptedSaveCleanUnlessReleaseFails ==
    \A c \in closed : IsInterrupted(c.raised) =>
        /\ RolledBackAndReraised(c)
        /\ ExitDone =>
              /\ RelNames = Reverse(enterLog)
              /\ IF LastDecisive # 0 /\ Failed(LastDecisive)
                 THEN /\ outcome.kind = "raised"
                      /\ outcome.chain[1] = Err("ReleaseError", relLog[LastDecisive].c)
                 ELSE outcome = Clean

\* After an earlier save scope committed, a second one was interrupted; two
\* collaborators were released and the caller saw a clean exit.
C16_Witness ==
    /\ ExitDone
    /\ \E c \in closed :
          /\ c.raised = <<Interrupted("save")>>
          /\ DirsAt(CheckpointPath(c.run, c.name)) = {}
    /\ \E c \in closed : c.raised = <<>>
    /\ RelNames = <<"metric_saver", "config_loader">>
    /\ outcome = Clean

\* C17 as stated: a delegated operation is carried out only while the Run
\* Context is entered, and the Run Context is entered once only.
C17_OperationsOnlyWhileEnteredOnce ==
    /\ lastOp.at \in {"none", "body"}
    /\ reenters = 0

(***************************************************************************)
(* Checkpoint store: properties                                            *)
(***************************************************************************)
\* C1 as stated: after a save_checkpoint scope whose body raised, whatever
\* it raised, the checkpoint's directory does not exist and the error the
\* caller observes is the one the body raised.
C1_FailedSaveLeavesNoDirectory ==
    \A c \in closed : c.raised # <<>> =>
        /\ DirsAt(CheckpointPath(c.run, c.name)) = {}
        /\ c.observed = c.raised

\* C2 as stated: a lookup never resolves a checkpoint whose save_checkpoint
\* scope is still open.
C2_WritingNeverResolved ==
    lastLoad.kind = "ok" => ~lastLoad.writing

\* The save scopes that ended without raising.
Committed == {c \in closed : c.raised = <<>>}

\* The global_step argument of the save_checkpoint call that generated c's id.
SavedStep(c) ==
    CHOOSE g \in Steps : \E n \in 0..MaxSaves : c.name = CheckpointId(g, c.run, Token(n))

\* The latest step was load_checkpoint(id) with the id of the save scope c.
LoadedById(c) == lastLoad.kind # "none" /\ lastLoad.given /\ lastLoad.arg = c.name

\* The lookup yielded the directory of the save scope c, decoded as saved.
YieldsAsSaved(c) ==
    /\ lastLoad.kind = "ok"
    /\ lastLoad.run = c.run
    /\ lastLoad.id = c.name
    /\ DirsAt(CheckpointPath(lastLoad.run, lastLoad.id)) # {}
    /\ lastLoad.global_step = SavedStep(c)
    /\ lastLoad.run_id = c.run

HasPatternCharacter(s) == \E i \in 1..Len(s) : s[i] \in {"*", "?", "["}

\* C12 as stated: load_checkpoint(id) with the id of a committed save scope
\* yields that scope's directory, with the global_step of the save and the
\* run_id of the manager that saved.
C12_CommittedLoadsById ==
    \A c \in Committed : LoadedById(c) => YieldsAsSaved(c)

\* C12 holds for the checkpoints of run ids without pattern characters.
C12_HoldsWithoutPatternCharacters ==
    \A c \in Committed :
        LoadedById(c) /\ ~HasPatternCharacter(c.run) => YieldsAsSaved(c)

\* The name decodes: it holds the double underscore and its leading segment
\* is an integer.
Decodable(name) == Decode(name).global_step # -1

\* The latest step was load_checkpoint() without an id.
LoadedLatest == lastLoad.kind # "none" /\ ~lastLoad.given

\* No entry of ds is later than d, and none as late as d has a higher
\* global_step when the steps are compared as integers.
LatestOf(d, ds) ==
    \A e \in ds :
        \/ e.mtime < d.mtime
        \/ /\ e.mtime = d.mtime
           /\ Decode(e.name).global_step <= Decode(d.name).global_step

\* C13: load_checkpoint() without an id fails with CheckpointNotFoundError
\* when the run's checkpoint root is empty; over one checkpoint directory
\* it yields that one; over several it yields one of greatest modification
\* time and, among those, of highest global_step compared as an integer.
C13_LatestByMtimeThenStep ==
    LoadedLatest =>
        LET own == CheckpointsOf(dirs, lastLoad.by) IN
        /\ own = {} => lastLoad.kind = "CheckpointNotFoundError"
        /\ (own # {} /\ \A d \in own : Decodable(d.name)) =>
              /\ lastLoad.kind = "ok"
              /\ \E d \in own :
                    /\ lastLoad.run = d.run
                    /\ lastLoad.id = d.name
                    /\ LatestOf(d, own)

\* Steps 2 and 10 with the same modification time: the lookup yielded 10.
C13_Witness ==
    /\ LoadedLatest
    /\ lastLoad.kind = "ok"
    /\ lastLoad.global_step = 10
    /\ \E d, e \in CheckpointsOf(dirs, lastLoad.by) :
          /\ d.mtime = e.mtime
          /\ Decode(d.name).global_step = 10
          /\ Decode(e.name).global_step = 2

\* The latest step was load_checkpoint(id) with an id.
LoadedGivenId == lastLoad.kind # "none" /\ lastLoad.given

\* The directories, of any run, whose trailing path segment is id.
Named(id) == {d \in dirs : d.name = id}

ByIdOutcomeFor(named) ==
    /\ named = {} => lastLoad.kind = "CheckpointNotFoundError"
    /\ Cardinality(named) > 1 => lastLoad.kind = "RuntimeError"
    /\ lastLoad.kind = "ok" => Cardinality(named) = 1

\* C14 as stated: load_checkpoint(id) fails with CheckpointNotFoundError
\* for that id when no directory has the id as its trailing path segment,
\* fails with RuntimeError when several have, and yields a checkpoint only
\* when exactly one has.
C14_ByIdNoneSeveralOrOne ==
    LoadedGivenId => ByIdOutcomeFor(Named(lastLoad.arg))

\* C14 holds for the ids without pattern characters.
C14_HoldsWithoutPatternCharacters ==
    LoadedGivenId /\ ~HasPatternCharacter(lastLoad.arg) =>
        ByIdOutcomeFor(Named(lastLoad.arg))

\* Every lookup ends over the directories ds as it ends over the
\* directories on disk.
SameLookups(ds) ==
    /\ \A m \in RunIds : LatestResults(dirs, m) = LatestResults(ds, m)
    /\ \A m \in RunIds, id \in LoadIds :
          ByIdResults(dirs, m, id) = ByIdResults(ds, m, id)

\* C15 as stated: after a save scope that failed, load_checkpoint() and
\* load_checkpoint(id), for every id, end as they would had the scope's
\* directory never been made.
C15_FailedSaveLeavesNoTrace ==
    \A c \in closed : c.raised # <<>> =>
        SameLookups(dirs \ DirsAt(CheckpointPath(c.run, c.name)))

\* Over the ids of LoadIds, C15 holds for the save scopes whose body raised
\* an Exception.
C15_HoldsForExceptions ==
    \A c \in closed : (c.raised # <<>> /\ IsException(c.raised[1])) =>
        SameLookups(dirs \ DirsAt(CheckpointPath(c.run, c.name)))

\* C18 as stated: load_checkpoint(id) by the manager of one run, with the
\* id of a checkpoint committed under another run, yields that checkpoint's
\* directory, decoded with the run_id of the run that saved it.
C18_ByIdResolvesOtherRuns ==
    \A c \in Committed :
        LoadedById(c) /\ lastLoad.by # c.run => YieldsAsSaved(c)

\* C18 holds for the checkpoints of run ids without pattern characters.
C18_HoldsWithoutPatternCharacters ==
    \A c \in Committed :
        (LoadedById(c) /\ lastLoad.by # c.run /\ ~HasPatternCharacter(c.run)) =>
            YieldsAsSaved(c)

\* C19: load_checkpoint() of a manager ends as it would were the entries of
\* its own run the only ones on disk, and with CheckpointNotFoundError when
\* only other runs have entries.
C19_LatestOfOwnRunOnly ==
    LoadedLatest =>
        LET own == CheckpointsOf(dirs, lastLoad.by) IN
        /\ lastLoad \in LatestResults(own, lastLoad.by)
        /\ lastLoad.kind = "ok" => lastLoad.run = lastLoad.by
        /\ own = {} => lastLoad.kind = "CheckpointNotFoundError"

\* A lookup yielded the checkpoint of the manager's own run although another
\* run had a later one.
C19_Witness ==
    /\ LoadedLatest
    /\ lastLoad.kind = "ok"
    /\ \E d \in dirs :
          /\ d.run # lastLoad.by
          /\ Decodable(d.name)
          /\ \E e \in CheckpointsOf(dirs, lastLoad.by) :
                e.name = lastLoad.id /\ e.mtime < d.mtime

\* C20: a lookup that comes upon a name that does not decode fails with
\* ValueError, which is not CheckpointNotFoundError: load_checkpoint() when
\* an entry of the run's root has a leading segment that is no integer, or
\* when the entries max() may return all lack the double underscore, and
\* load_checkpoint(id) when the one directory it matched does not decode;
\* and load_checkpoint() never fails with CheckpointNotFoundError while the
\* run's root holds an entry.
C20_UndecodableIsNotNotFound ==
    /\ LoadedLatest =>
          LET own == CheckpointsOf(dirs, lastLoad.by) IN
          /\ own # {} => lastLoad.kind # "CheckpointNotFoundError"
          /\ (\E d \in own : SortKey(d)[2] = -1) => lastLoad.kind = "ValueError"
          /\ (own # {} /\ \A d \in MaxByKey(own) : ~Decodable(d.name)) =>
                lastLoad.kind = "ValueError"
    /\ LoadedGivenId =>
          LET found == GlobById(dirs, lastLoad.arg) IN
          (Cardinality(found) = 1 /\ \A d \in found : ~Decodable(d.name)) =>
              lastLoad.kind = "ValueError"
    /\ lastLoad.kind = "ok" => Decodable(lastLoad.id)

\* The run's root holds a checkpoint and, later than it, an entry whose name
\* has an integer leading segment but no double underscore: load_checkpoint()
\* failed with ValueError.
C20_Witness ==
    /\ LoadedLatest
    /\ lastLoad.kind = "ValueError"
    /\ \E d, e \in CheckpointsOf(dirs, lastLoad.by) :
          /\ Decodable(d.name)
          /\ e.name = <<"2", "-", "r">>
          /\ d.mtime < e.mtime
    /\ \A d \in CheckpointsOf(dirs, lastLoad.by) : SortKey(d)[2] # -1

(***************************************************************************)
(* Checkpoint identifiers: properties                                      *)
(***************************************************************************)
\* C11: decoding a generated id '{global_step}-{run_id}__{token}' recovers
\* the global_step and the run_id it was generated from, for every
\* non-negative global_step and every run_id, hyphens included.
C11_DecodeRecoversStepAndRunId ==
    codec.phase = "decoded" =>
        /\ codec.decoded.global_step = codec.global_step
        /\ codec.decoded.run_id = codec.run_id

\* An id of a two-digit step and of a run_id holding a hyphen and a double
\* underscore was generated and decoded.
C11_Witness ==
    /\ codec.phase = "decoded"
    /\ codec.global_step = 42
    /\ codec.run_id = <<"-", "_", "_">>
    /\ codec.decoded = [global_step |-> 42, run_id |-> <<"-", "_", "_">>]

(***************************************************************************)
(* Metric and progress savers (metric_saver.py, progress_saver.py)         *)
(***************************************************************************)
\* JSON values carry their Python type t: a float or a str has its literal in
\* f, a list has its elements in items, a dict has its keys, in insertion
\* order, in keys and the value of keys[i] in items[i].
Float(x) == [t |-> "float", f |-> x, keys |-> <<>>, items |-> <<>>]
Str(x) == [t |-> "str", f |-> x, keys |-> <<>>, items |-> <<>>]
List(xs) == [t |-> "list", f |-> "", keys |-> <<>>, items |-> xs]
Dict(ks, xs) == [t |-> "dict", f |-> "", keys |-> ks, items |-> xs]
None == [t |-> "None", f |-> "", keys |-> <<>>, items |-> <<>>]

\* math.isfinite(o) for a float o
IsFinite(x) == x \notin {"inf", "-inf", "nan"}

\* An encoder that looks into dicts only and takes a list as it is.
RECURSIVE EncodeDictsOnly(_)
EncodeDictsOnly(o) ==
    IF o.t = "dict"
    THEN Dict(o.keys, [i \in DOMAIN o.items |-> EncodeDictsOnly(o.items[i])])
    ELSE IF o.t = "float"
    THEN IF ~IsFinite(o.f) THEN None ELSE o
    ELSE o

\* _encode_nan_and_inf_as_none(o)
RECURSIVE EncodeNanAndInfAsNone(_)
EncodeNanAndInfAsNone(o) ==
    IF o.t = "dict"
    THEN Dict(o.keys,
              [i \in DOMAIN o.items |-> EncodeNanAndInfAsNone(o.items[i])])
    ELSE IF o.t = "list"
    THEN List([i \in DOMAIN o.items |-> EncodeNanAndInfAsNone(o.items[i])])
    ELSE IF o.t = "float"
    THEN IF ~IsFinite(o.f) THEN None ELSE o
    ELSE o

\* _encode_metrics(metrics)
EncodeMetrics(ms) ==
    [i \in DOMAIN ms |->
        [global_step |-> ms[i].global_step,
         tag |-> ms[i].tag,
         value |-> EncodeNanAndInfAsNone(ms[i].value)]]

\* A list that forgets what it held.
ExtendFresh(l, items) == items

\* list.extend
Extend(l, items) == l \o items

\* MemoryMetricSaver.save_metrics(metrics)
SaveMetrics(ms) ==
    /\ metrics' = Extend(metrics, EncodeMetrics(ms))
    /\ metricCalls' = Append(metricCalls, ms)
    /\ UNCHANGED <<current_progress, progressCalls>>
    /\ UNCHANGED <<rcVars, storeVars, codecVars, lifeVars,
                   loadVars, fetcherVars, s3Vars>>

\* An attribute that keeps the first list it was given.
SetOnce(attr, value) == IF attr.set THEN attr ELSE [set |-> TRUE, v |-> value]

\* self.attr = value
SetAttr(attr, value) == [set |-> TRUE, v |-> value]

\* MemoryProgressSaver.save_progress(progress)
SaveProgress(progress) ==
    /\ current_progress' = SetAttr(current_progress, progress)
    /\ progressCalls' = Append(progressCalls, progress)
    /\ UNCHANGED <<metrics, metricCalls>>
    /\ UNCHANGED <<rcVars, storeVars, codecVars, lifeVars,
                   loadVars, fetcherVars, s3Vars>>

Metric(g, tag, x) == [global_step |-> g, tag |-> tag, value |-> x]

Progress(op, x) == [operation |-> op, value |-> x, final_value |-> "10.0",
                    units |-> "steps"]

\* ---- One save_metrics call on a fresh saver, over nested values ----
MaxDepth == 2

Atoms == {Float("inf"), Float("-inf"), Float("nan"), Float("1.5"), Str("inf")}

\* The values nested at most d deep: lists of one and of two elements, and
\* dicts of one item.
RECURSIVE Values(_)
Values(d) ==
    IF d = 0
    THEN Atoms
    ELSE LET V == Values(d - 1) IN
         V \cup {List(<<x>>) : x \in V}
           \cup {List(<<a, x>>) : a \in {Float("1.5"), Float("nan")}, x \in V}
           \cup {Dict(<<"nan">>, <<x>>) : x \in V}

DeepBatches ==
    {<<Metric(g, "loss", x)>> : g \in {0, 7}, x \in Values(MaxDepth)}

FirstSaveMetrics == \E ms \in DeepBatches : metricCalls = <<>> /\ SaveMetrics(ms)

InitEncode == RunContextIdle /\ StoreInit /\ CodecIdle /\ LifeInit /\ ExtraIdle
NextEncode == FirstSaveMetrics
SpecEncode == InitEncode /\ [][NextEncode]_vars

\* ---- Sequences of save_metrics and save_progress calls ----
MaxCalls == 2

MetricBatches ==
    {<<>>,
     <<Metric(1, "loss", Float("inf"))>>,
     <<Metric(1, "acc", Float("1.5")),
       Metric(2, "loss", List(<<Float("nan"), Float("1.5")>>))>>,
     <<Metric(3, "loss", Dict(<<"a">>, <<Float("-inf")>>))>>}

ProgressLists ==
    {<<>>,
     <<Progress("Training", "1.0")>>,
     <<Progress("Evaluation", "2.0"), Progress("Training", "3.0")>>}

SaveMetricsCall ==
    \E ms \in MetricBatches : Len(metricCalls) < MaxCalls /\ SaveMetrics(ms)

SaveProgressCall ==
    \E progress \in ProgressLists :
        Len(progressCalls) < MaxCalls /\ SaveProgress(progress)

InitSavers == InitEncode
NextSavers == SaveMetricsCall \/ SaveProgressCall
SpecSavers == InitSavers /\ [][NextSavers]_vars

(***************************************************************************)
(* Metric and progress savers: properties                                  *)
(***************************************************************************)
NonFinite == {Float("inf"), Float("-inf"), Float("nan")}

\* out is o with None in the place of every non-finite float, at any depth
\* of lists and of dict values, and is o everywhere else.
RECURSIVE NoneForNonFinite(_, _)
NoneForNonFinite(o, out) ==
    IF o \in NonFinite
    THEN out = None
    ELSE IF o.t \in {"list", "dict"}
    THEN /\ out.t = o.t
         /\ out.f = o.f
         /\ out.keys = o.keys
         /\ Len(out.items) = Len(o.items)
         /\ \A i \in DOMAIN o.items : NoneForNonFinite(o.items[i], out.items[i])
    ELSE out = o

\* C21: save_metrics stores, for every metric, a record of the same
\* global_step and tag whose value has None in the place of every
\* non-finite float (inf, -inf, NaN), nested at any depth inside list or
\* dict values, and is unchanged everywhere else.
C21_NonFiniteStoredAsNone ==
    Len(metricCalls) = 1 =>
        /\ Len(metrics) = Len(metricCalls[1])
        /\ \A i \in DOMAIN metrics :
              /\ metrics[i].global_step = metricCalls[1][i].global_step
              /\ metrics[i].tag = metricCalls[1][i].tag
              /\ NoneForNonFinite(metricCalls[1][i].value, metrics[i].value)

\* A metric of step 7 whose value holds NaN inside a list inside a list, next
\* to the finite 1.5, was saved: the stored value has None for the NaN and
\* still holds the 1.5.
C21_Witness ==
    /\ Len(metricCalls) = 1
    /\ metricCalls[1][1].global_step = 7
    /\ metricCalls[1][1].value = List(<<Float("1.5"), List(<<Float("nan")>>)>>)
    /\ metrics[1].value = List(<<Float("1.5"), List(<<None>>)>>)

RECURSIVE Concat(_)
Concat(ss) == IF ss = <<>> THEN <<>> ELSE Head(ss) \o Concat(Tail(ss))

\* C27: after any sequence of save_metrics calls the stored list is the
\* concatenation, in call order and in input order within each call, of the
\* sanitized records of all calls.
C27_MetricsAccumulate ==
    metrics = Concat([i \in DOMAIN metricCalls |-> EncodeMetrics(metricCalls[i])])

\* A call with two metrics was followed by a call with one: the three
\* records are stored in that order.
C27_Witness ==
    /\ Len(metricCalls) = 2
    /\ Len(metricCalls[1]) = 2
    /\ Len(metricCalls[2]) = 1
    /\ Len(metrics) = 3
    /\ metrics[2].value = List(<<None, Float("1.5")>>)
    /\ metrics[3].global_step = metricCalls[2][1].global_step

\* C27, step by step: a save_metrics call leaves the records stored before
\* it where they were.
C27_EarlierRecordsKept ==
    [][SubSeq(metrics', 1, Len(metrics)) = metrics]_vars

\* C28: after save_progress(A) followed by save_progress(B) the saver holds
\* the records of both A and B.
C28_ProgressAccumulates ==
    Len(progressCalls) >= 2 =>
        LET A == progressCalls[Len(progressCalls) - 1]
            B == progressCalls[Len(progressCalls)]
        IN  /\ current_progress.set
            /\ \A i \in DOMAIN A : \E j \in DOMAIN current_progress.v :
                  current_progress.v[j] = A[i]
            /\ \A i \in DOMAIN B : \E j \in DOMAIN current_progress.v :
                  current_progress.v[j] = B[i]

\* C28, as the code has it: the saver holds the current progress only.  After
\* save_progress(A) followed by save_progress(B), current_progress is the
\* list B; before the first call the attribute is not set.
C28_HoldsLatestProgress ==
    IF progressCalls = <<>>
    THEN ~current_progress.set
    ELSE current_progress = [set |-> TRUE, v |-> progressCalls[Len(progressCalls)]]

\* The Training record was saved, then the empty list: the saver holds no
\* record.
C28_Witness ==
    /\ Len(progressCalls) = 2
    /\ progressCalls[1] = <<Progress("Training", "1.0")>>
    /\ progressCalls[2] = <<>>
    /\ current_progress = [set |-> TRUE, v |-> <<>>]

(***************************************************************************)
(* Dataset fetcher (dataset.py)                                            *)
(***************************************************************************)
\* A split directory holds at most MaxFiles entries '<n>.json', each a
\* regular file (next to its datum file '<n>') or a directory.
MaxFiles == 2

StemNames == <<"1", "2", "3", "4">>

Stems == {StemNames[i] : i \in 1..MaxFiles}

DirContents ==
    {es \in SUBSET [stem : Stems, is_file : BOOLEAN] :
        \A e1, e2 \in es : e1.stem = e2.stem => e1 = e2}

\* The two split directories that datasets were written to.
WrittenDirs == {SplitDir("", NoneSplit), SplitDir("s", "train")}

Disks ==
    {d \in [SplitDirs -> DirContents] : \A k \in SplitDirs \ WrittenDirs : d[k] = {}}

\* The orders file_root.glob("*.json") may list the entries es in.
GlobOrders(es) ==
    {o \in [1..Cardinality(es) -> es] : \A i, j \in DOMAIN o : o[i] = o[j] => i = j}

\* {i: f.stem for i, f in enumerate(listing) if f.is_file()}
IndexToId(listing) ==
    [i \in {j - 1 : j \in {k \in DOMAIN listing : listing[k].is_file}} |->
        listing[i + 1].stem]

\* LocalFileDatasetFetcher.prepare_snapshot_split(snapshot_id, split)
PrepareSnapshotSplit ==
    \E snapshot_id \in SnapshotIds, split \in Splits :
        /\ IF fetcher.snapshot_id = snapshot_id /\ fetcher.split = split
           THEN UNCHANGED fetcher
           ELSE \E listing \in GlobOrders(disk[SplitDir(snapshot_id, split)]) :
                   fetcher' = [snapshot_id |-> snapshot_id,
                               split |-> split,
                               prepared |-> TRUE,
                               index_to_id |-> IndexToId(listing),
                               num_datums |-> Cardinality(DOMAIN IndexToId(listing))]
        /\ lastGet' = NoGet
        /\ UNCHANGED disk
        /\ UNCHANGED <<rcVars, storeVars, codecVars, lifeVars,
                       loadVars, saverVars, s3Vars>>

Indices == -1..(MaxFiles + 1)

\* The num_datums property: self._num_datums, an attribute that only
\* prepare_snapshot_split sets.
NumDatums(f) == [error |-> ~f.prepared, value |-> f.num_datums]

\* LocalFileDatasetFetcher.get_datum_at_index(index)
GetDatumAtIndex ==
    \E index \in Indices :
        LET file_root == SplitDir(fetcher.snapshot_id, fetcher.split)
            n == NumDatums(fetcher)
            datum_id == IF index \in DOMAIN fetcher.index_to_id
                        THEN fetcher.index_to_id[index]
                        ELSE "None"
            found == \E e \in disk[file_root] : e.is_file /\ e.stem = datum_id
        IN  /\ lastGet' =
                   IF n.error
                   THEN [kind |-> "AttributeError", index |-> index,
                         datum_id |-> "none", reads |-> {}]
                   ELSE IF index < 0 \/ index >= n.value
                   THEN [kind |-> "ValueError", index |-> index,
                         datum_id |-> "none", reads |-> {}]
                   ELSE IF ~found
                   THEN [kind |-> "FileNotFoundError", index |-> index,
                         datum_id |-> datum_id, reads |-> {}]
                   ELSE [kind |-> "ok", index |-> index, datum_id |-> datum_id,
                         reads |-> {<<file_root, datum_id, "">>,
                                    <<file_root, datum_id, ".json">>}]
            /\ UNCHANGED <<fetcher, disk>>
            /\ UNCHANGED <<rcVars, storeVars, codecVars, lifeVars,
                           loadVars, saverVars, s3Vars>>

InitFetch ==
    /\ RunContextIdle /\ StoreInit /\ CodecIdle /\ LifeInit
    /\ LoadInit /\ SaversInit /\ FetcherInit /\ s3 = NoS3
    /\ disk \in Disks
NextFetch == PrepareSnapshotSplit \/ GetDatumAtIndex
SpecFetch == InitFetch /\ [][NextFetch]_vars

(***************************************************************************)
(* Dataset fetcher: properties                                             *)
(***************************************************************************)
\* The latest call was get_datum_at_index.
Got == lastGet.kind # "none"

\* C22: in every reachable state of the fetcher, a freshly constructed one
\* included, get_datum_at_index(index) with index outside [0, num_datums)
\* fails with ValueError and reads no datum file.
C22_OutOfRangeIsValueError ==
    Got /\ (~fetcher.prepared \/ lastGet.index < 0
               \/ lastGet.index >= fetcher.num_datums)
        => lastGet.kind = "ValueError" /\ lastGet.reads = {}

\* C22 for fetchers on which prepare_snapshot_split has had an effect: an
\* index outside [0, num_datums) fails with ValueError; and no call with such
\* an index, on a fresh fetcher or not, reads a file.
C22_HoldsOncePrepared ==
    /\ Got /\ fetcher.prepared
           /\ (lastGet.index < 0 \/ lastGet.index >= fetcher.num_datums)
        => lastGet.kind = "ValueError"
    /\ Got /\ (~fetcher.prepared \/ lastGet.index < 0
                  \/ lastGet.index >= fetcher.num_datums)
        => lastGet.reads = {}

(***************************************************************************)
(* S3 mirror: path translation (s3.py)                                     *)
(***************************************************************************)
\* str.replace(old, new) for a non-empty old: every occurrence, from the left,
\* without overlaps.
RECURSIVE Replace(_, _, _)
Replace(str, old, new) ==
    IF Len(str) < Len(old)
    THEN str
    ELSE IF SubSeq(str, 1, Len(old)) = old
    THEN new \o Replace(SubSeq(str, Len(old) + 1, Len(str)), old, new)
    ELSE <<Head(str)>> \o Replace(Tail(str), old, new)

\* str.endswith("/")
EndsWithSlash(str) == str # <<>> /\ str[Len(str)] = "/"

\* The path segments joined by os.sep
RECURSIVE JoinSegments(_, _)
JoinSegments(segments, sep) ==
    IF Len(segments) = 1
    THEN Head(segments)
    ELSE Head(segments) \o <<sep>> \o JoinSegments(Tail(segments), sep)

\* os.path.join(a, b) for a directory a that does not end with a separator
OsPathJoin(a, b, sep) ==
    IF b # <<>> /\ Head(b) = sep THEN b ELSE a \o <<sep>> \o b

\* os.path.relpath(file_path, start) for a file under the directory start
RelPath(file_path, start) == SubSeq(file_path, Len(start) + 2, Len(file_path))

\* _file_path_to_s3_key(file_path, file_path_prefix_to_strip, s3_key_prefix)
FilePathToS3Key(file_path, file_path_prefix_to_strip, s3_key_prefix, sep) ==
    LET file_suffix == RelPath(file_path, file_path_prefix_to_strip)
        key_suffix == Replace(file_suffix, <<sep>>, <<"/">>)
    IN  s3_key_prefix \o key_suffix

\* _s3_key_to_file_path(key, file_path_prefix, s3_key_prefix)
S3KeyToFilePath(key, file_path_prefix, s3_key_prefix, sep) ==
    LET stripped_key == Replace(key, s3_key_prefix, <<>>)
        rel_file_path == Replace(stripped_key, <<"/">>, <<sep>>)
    IN  OsPathJoin(file_path_prefix, rel_file_path, sep)

MaxPrefixLen == 3
MaxSegments == 2

RECURSIVE Strings(_, _)
Strings(chars, n) ==
    IF n = 0
    THEN {<<>>}
    ELSE LET shorter == Strings(chars, n - 1)
         IN  shorter \cup {Append(str, c) : str \in shorter, c \in chars}

KeyPrefixes == Strings({"a", "/"}, MaxPrefixLen) \ {<<>>}
FileNames == Strings({"a", "b"}, 2) \ {<<>>}

RECURSIVE RelativePaths(_)
RelativePaths(n) ==
    IF n = 0
    THEN {<<>>}
    ELSE LET shorter == RelativePaths(n - 1)
         IN  shorter \cup {Append(segments, name) : segments \in shorter,
                                                   name \in FileNames}

src_dir == <<"s", "r", "c">>
dest_dir == <<"d", "s", "t">>

\* A file at the relative path p under src_dir, on a platform whose os.sep
\* is sep, and a key prefix.
S3Init ==
    \E sep \in {"/", "\\"}, key_prefix \in KeyPrefixes,
       p \in RelativePaths(MaxSegments) \ {<<>>} :
        s3 = [phase |-> "local", sep |-> sep, key_prefix |-> key_prefix, p |-> p,
              file_path |-> OsPathJoin(src_dir, JoinSegments(p, sep), sep),
              key |-> <<>>, back |-> <<>>]

\* upload_directory_to_s3(src_dir, bucket, key_prefix), for the file
UploadFile ==
    /\ s3.phase = "local"
    /\ s3' = IF ~EndsWithSlash(s3.key_prefix)
             THEN [s3 EXCEPT !.phase = "ValueError"]
             ELSE [s3 EXCEPT !.phase = "uploaded",
                             !.key = FilePathToS3Key(s3.file_path, src_dir,
                                                     s3.key_prefix, s3.sep)]
    /\ UNCHANGED <<rcVars, storeVars, codecVars, lifeVars,
                   loadVars, saverVars, fetcherVars>>

\* download_directory_from_s3(dest_dir, bucket, key_prefix), for the key
DownloadKey ==
    /\ s3.phase = "uploaded"
    /\ s3' = [s3 EXCEPT !.phase = "downloaded",
                        !.back = S3KeyToFilePath(s3.key, dest_dir,
                                                 s3.key_prefix, s3.sep)]
    /\ UNCHANGED <<rcVars, storeVars, codecVars, lifeVars,
                   loadVars, saverVars, fetcherVars>>

InitS3 ==
    /\ RunContextIdle /\ StoreInit /\ CodecIdle /\ LifeInit
    /\ LoadInit /\ SaversInit /\ FetcherInit /\ disk = NoDisk
    /\ S3Init
NextS3 == UploadFile \/ DownloadKey
SpecS3 == InitS3 /\ [][NextS3]_vars

(***************************************************************************)
(* S3 mirror: properties                                                   *)
(***************************************************************************)
\* C23: for every key_prefix ending in '/' and every relative path p, the key
\* that the upload assigns to p is mapped by the download, with the same
\* key_prefix, to the destination directory joined with p.
C23_PathRoundTrips ==
    s3.phase = "downloaded" =>
        s3.back = OsPathJoin(dest_dir, JoinSegments(s3.p, s3.sep), s3.sep)

\* str holds old as a substring.
Holds(str, old) ==
    \E i \in 1..(Len(str) - Len(old) + 1) : SubSeq(str, i, i + Len(old) - 1) = old

\* C23 for the paths whose key holds the key prefix only where it begins:
\* those round-trip, and the key is the prefix followed by p with '/' between
\* the segments.
C23_HoldsWhenPrefixOccursOnce ==
    /\ s3.phase \in {"uploaded", "downloaded"} =>
          s3.key = s3.key_prefix \o JoinSegments(s3.p, "/")
    /\ s3.phase = "downloaded" /\ ~Holds(Tail(s3.key), s3.key_prefix) =>
          s3.back = OsPathJoin(dest_dir, JoinSegments(s3.p, s3.sep), s3.sep)

(***************************************************************************)
(* Checkpoint store: further properties                                    *)
(***************************************************************************)
\* C30: whenever load_checkpoint(id) yields a checkpoint, the yielded id (the
\* name of the resolved directory) is the id that was supplied, for every id
\* string, pattern characters such as '*', '?' or '[' included.
C30_YieldedIdIsGivenId ==
    LoadedGivenId /\ lastLoad.kind = "ok" => lastLoad.id = lastLoad.arg

\* C30 for the ids that hold no pattern character: the yielded id is the
\* supplied one.
C30_HoldsWithoutPatternCharacters ==
    LoadedGivenId /\ lastLoad.kind = "ok" /\ ~HasPatternCharacter(lastLoad.arg)
        => lastLoad.id = lastLoad.arg

\* C24: a committed checkpoint is never deleted or altered by a later
\* operation of the store, and it is still resolved by load_checkpoint(id):
\* its directory exists, and a lookup by its id yields that directory.
C24_CommittedStaysResolvable ==
    \A c \in Committed :
        /\ DirsAt(c) # {}
        /\ LoadedById(c) =>
              /\ lastLoad.kind = "ok"
              /\ lastLoad.run = c.run
              /\ lastLoad.id = c.name

\* C24, the directory: no step of the store deletes the directory of a
\* committed checkpoint or changes its files or its modification time.
C24_CommittedNeverAltered ==
    [][\A c \in Committed : \A d \in DirsAt(c) : d \in dirs']_vars

\* C24, the lookup, for the checkpoints whose id holds no pattern character:
\* a lookup by the id yields the committed directory.
C24_HoldsWithoutPatternCharacters ==
    \A c \in Committed :
        /\ DirsAt(c) # {}
        /\ LoadedById(c) /\ ~HasPatternCharacter(c.name) =>
              /\ lastLoad.kind = "ok"
              /\ lastLoad.run = c.run
              /\ lastLoad.id = c.name

(***************************************************************************)
(* Checkpoint store: save scopes one after the other                       *)
(***************************************************************************)
MaxSeqTime == 4

\* Every directory was last written before the current time, so the next
\* write gets a strictly larger st_mtime than all earlier ones.
ClockAhead == \A d \in dirs : d.mtime < now

\* save_checkpoint is called when no other save scope is open.
SeqSaveOpen == scopes = {} /\ ClockAhead /\ SaveOpen

SeqBodyWrite == ClockAhead /\ BodyWrite

\* Time passes.
SeqTick ==
    /\ now < MaxSeqTime
    /\ now' = now + 1
    /\ lastLoad' = NoLoad
    /\ UNCHANGED <<dirs, nextToken, scopes, closed, mostRecent>>
    /\ UNCHANGED notStore

NextSeq ==
    \/ SeqSaveOpen
    \/ SeqBodyWrite
    \/ SaveCommit
    \/ SeqTick
    \/ LoadLatest

SpecSeq == InitStore /\ [][NextSeq]_vars

\* The number of the uuid4 draw that generated c's id.
SavedToken(c) ==
    CHOOSE n \in 0..nextToken :
        \E g \in Steps : c.name = CheckpointId(g, c.run, Token(n))

CommittedBy(m) == {c \in Committed : c.run = m}

\* The save scope of run m that committed last.
LastCommitted(m) ==
    CHOOSE c \in CommittedBy(m) :
        \A e \in CommittedBy(m) : SavedToken(e) <= SavedToken(c)

\* C25: where the save scopes of a run do not overlap, each commits, and
\* every write gets a strictly larger modification time than all earlier
\* ones, load_checkpoint() yields the checkpoint of the most recently
\* committed save scope, whatever the global_step values were.
C25_LatestIsLastCommitted ==
    LoadedLatest /\ CommittedBy(lastLoad.by) # {} =>
        /\ lastLoad.kind = "ok"
        /\ lastLoad.run = lastLoad.by
        /\ lastLoad.id = LastCommitted(lastLoad.by).name

\* C25 for the lookups made while no save scope is open: they yield the
\* checkpoint of the save scope that committed last.
C25_HoldsBetweenScopes ==
    LoadedLatest /\ scopes = {} /\ CommittedBy(lastLoad.by) # {} =>
        /\ lastLoad.kind = "ok"
        /\ lastLoad.run = lastLoad.by
        /\ lastLoad.id = LastCommitted(lastLoad.by).name

\* A save at step 10 committed, then a save at step 2 of the same run
\* committed, and load_checkpoint() yielded the checkpoint of step 2.
C25_OutOfStepOrder ==
    /\ LoadedLatest /\ scopes = {} /\ lastLoad.kind = "ok"
    /\ Cardinality(CommittedBy(lastLoad.by)) = 2
    /\ lastLoad.global_step = 2
    /\ \E c \in CommittedBy(lastLoad.by) : SavedStep(c) = 10 /\ SavedToken(c) = 0

(***************************************************************************)
(* Checkpoint store: the end of a load_checkpoint scope                    *)
(***************************************************************************)
MaxLoads == 2

\* A generator that removes the directory it yielded when the body raised.
LoadExitRollsBack(p, e) == IF e # <<>> THEN RmTree(p) ELSE dirs

\* The directories after the generator is resumed, or thrown e into, at the
\* yield of load_checkpoint: the yield is the last statement and is in no
\* try block.
LoadExitDirs(p, e) == dirs

\* The body of the load scope that the latest step opened ends without
\* raising.
LoadBodyReturns ==
    /\ lastLoad.kind = "ok"
    /\ loadEnd.n < MaxLoads
    /\ dirs' = LoadExitDirs(CheckpointPath(lastLoad.run, lastLoad.id), <<>>)
    /\ loadEnd' = [kind |-> "returned", n |-> loadEnd.n + 1, raised |-> <<>>,
                   observed |-> <<>>, run |-> lastLoad.run, id |-> lastLoad.id]
    /\ lastLoad' = NoLoad
    /\ UNCHANGED <<now, nextToken, scopes, closed, mostRecent>>
    /\ UNCHANGED <<rcVars, codecVars, lifeVars, saverVars, fetcherVars, s3Vars>>

\* The body of the load scope raises e, which is thrown into the generator
\* at its yield and leaves it unhandled.
LoadBodyRaises ==
    /\ lastLoad.kind = "ok"
    /\ loadEnd.n < MaxLoads
    /\ \E e \in BodyErrors :
        /\ dirs' = LoadExitDirs(CheckpointPath(lastLoad.run, lastLoad.id), <<e>>)
        /\ loadEnd' = [kind |-> "raised", n |-> loadEnd.n + 1, raised |-> <<e>>,
                       observed |-> Reraise(e), run |-> lastLoad.run,
                       id |-> lastLoad.id]
    /\ lastLoad' = NoLoad
    /\ UNCHANGED <<now, nextToken, scopes, closed, mostRecent>>
    /\ UNCHANGED <<rcVars, codecVars, lifeVars, saverVars, fetcherVars, s3Vars>>

\* The checkpoints that earlier save scopes left under base_dir: any of two
\* of run 'r' and one of run 'r-x'.
LoadTrees ==
    SUBSET {[run |-> <<"r">>, name |-> CheckpointId(2, <<"r">>, Token(0)),
             mtime |-> 0, files |-> {"model.pth"}],
            [run |-> <<"r">>, name |-> CheckpointId(10, <<"r">>, Token(1)),
             mtime |-> 1, files |-> {}],
            [run |-> <<"r", "-", "x">>,
             name |-> CheckpointId(2, <<"r", "-", "x">>, Token(2)),
             mtime |-> 1, files |-> {"model.pth"}]}

InitLoad ==
    /\ RunContextIdle /\ CodecIdle /\ LifeInit /\ ExtraIdle
    /\ dirs \in LoadTrees
    /\ now = 1
    /\ nextToken = 0
    /\ scopes = {}
    /\ closed = {}
    /\ mostRecent = [m \in RunIds |-> <<>>]
    /\ lastLoad = NoLoad

NextLoad ==
    \/ LoadLatest
    \/ LoadById
    \/ LoadBodyReturns
    \/ LoadBodyRaises

SpecLoad == InitLoad /\ [][NextLoad]_vars

\* C26: load_checkpoint is read-only with respect to the store.  A step of a
\* load scope (a lookup that fails, a lookup that yields, the body
\* completing, the body raising) creates, deletes and modifies no
\* checkpoint directory, and an error raised inside the scope reaches the
\* caller unchanged.
C26_LoadScopesReadOnly ==
    [][(lastLoad' # NoLoad \/ loadEnd' # loadEnd) =>
          /\ dirs' = dirs
          /\ loadEnd'.observed = loadEnd'.raised]_vars

\* The body of a load scope raised, the caller observed that error, and the
\* loaded checkpoint is on disk with its file.
C26_Witness ==
    /\ loadEnd.kind = "raised"
    /\ loadEnd.raised = <<Err("Error", "body")>>
    /\ loadEnd.observed = loadEnd.raised
    /\ \E d \in dirs : d.run = loadEnd.run /\ d.name = loadEnd.id
                          /\ d.files = {"model.pth"}

\* A lookup failed with CheckpointNotFoundError over a tree that holds
\* checkpoints of another run, after an earlier load scope had completed.
C26_FailedLookup ==
    /\ lastLoad.kind = "CheckpointNotFoundError"
    /\ loadEnd.kind = "returned"
    /\ dirs # {}

(***************************************************************************)
(* Run Context: __enter__ and __exit__ called in any order                 *)
(***************************************************************************)
\* __enter__ is called while the scope is active (a `with run_context:`
\* statement inside the body of another one): it runs as the first time,
\* over the callbacks the ExitStack holds.
NestedEnter ==
    /\ pc = "body"
    /\ reenters < MaxReEnters
    /\ reenters' = reenters + 1
    /\ pc' = "entering"
    /\ idx' = 1
    /\ exitCalled' = FALSE
    /\ bodyExc' = <<>>
    /\ exc' = <<>>
    /\ suppressed_exc' = FALSE
    /\ pending_raise' = FALSE
    /\ outcome' = NoOutcome
    /\ UNCHANGED <<attrs, callbacks, enterLog, relLog, signals>>
    /\ UNCHANGED <<storeVars, codecVars, lastOp, sigVars, extraVars>>

\* __exit__(None, None, None) is called where no with statement calls it:
\* before the first __enter__, or after an __exit__ or a failed __enter__.
ExitCall ==
    /\ pc \in {"new", "done"}
    /\ lastOp' = [op |-> "__exit__", at |-> pc]
    /\ pc' = "exiting"
    /\ exitCalled' = TRUE
    /\ bodyExc' = <<>>
    /\ exc' = <<>>
    /\ suppressed_exc' = FALSE
    /\ pending_raise' = FALSE
    /\ UNCHANGED <<attrs, idx, callbacks, enterLog, relLog, outcome, signals>>
    /\ UNCHANGED <<storeVars, codecVars, reenters, sigVars, extraVars>>

NextCalls == Next \/ ReEnter \/ NestedEnter \/ ExitCall

SpecCalls == InitLife /\ [][NextCalls]_vars

\* How many times c occurs in the sequence q.
Occurrences(q, c) == Cardinality({i \in DOMAIN q : q[i] = c})

ReleasesOf(c) == Cardinality({i \in DOMAIN relLog : relLog[i].c = c})

\* C29: over any sequence of Enter and Exit calls, no collaborator is
\* released more times than it was entered (each enter is either released
\* once or still on the unwind stack), and Exit leaves the unwind stack
\* empty, so an Exit that follows it releases nothing.
C29_ReleasedAtMostOncePerEnter ==
    /\ \A c \in Roles :
          ReleasesOf(c) + Occurrences(callbacks, c) = Occurrences(enterLog, c)
    /\ ExitDone => callbacks = <<>>

\* Enter entered two collaborators, Exit released both, and a second Exit
\* without an Enter in between has returned: two enters, two releases.
C29_Witness ==
    /\ pc = "done"
    /\ lastOp = [op |-> "__exit__", at |-> "done"]
    /\ reenters = 0
    /\ Len(enterLog) = 2
    /\ Len(relLog) = 2
    /\ callbacks = <<>>

\* Enter was called twice with no Exit in between, and one Exit released
\* the four entries.
C29_EnteredTwice ==
    /\ pc = "done"
    /\ reenters = 1
    /\ lastOp = NoOp
    /\ Len(enterLog) = 4
    /\ Len(relLog) = 4

(***************************************************************************)
(* Dataset fetcher: the cached index-to-datum map                          *)
(***************************************************************************)
\* The latest get_datum_at_index call passed the range check.
Accepted == Got /\ lastGet.kind \notin {"AttributeError", "ValueError"}

\* C31: after prepare_snapshot_split has enumerated a split directory, the
\* cached map has an entry for every index in [0, num_datums), and
\* get_datum_at_index resolves a datum id for every index the range check
\* accepts, whatever the directory holds, entries that match '*.json' and
\* are not regular files included.
C31_EveryAcceptedIndexHasEntry ==
    /\ fetcher.prepared =>
          DOMAIN fetcher.index_to_id = 0..(fetcher.num_datums - 1)
    /\ Accepted => lastGet.index \in DOMAIN fetcher.index_to_id
                      /\ lastGet.datum_id # "None"

\* C31 for the split directories whose '*.json' entries are all regular
\* files: the map has an entry for every index in [0, num_datums), and every
\* accepted index resolves the datum id of one of the files and reads it.
C31_HoldsForRegularFiles ==
    LET entries == disk[SplitDir(fetcher.snapshot_id, fetcher.split)] IN
    (\A e \in entries : e.is_file) =>
        /\ fetcher.prepared =>
              DOMAIN fetcher.index_to_id = 0..(fetcher.num_datums - 1)
        /\ Accepted => /\ lastGet.kind = "ok"
                       /\ \E e \in entries : e.stem = lastGet.datum_id

(***************************************************************************)
(* Signals outside the scope: before __enter__ and after __exit__          *)
(***************************************************************************)
\* What the code that is running sees when the signal sig is delivered
\* while handler is installed: handle_interruption raises
\* RunContextInterruptedError; Python's default raises KeyboardInterrupt for
\* SIGINT and the process is terminated by SIGTERM.
Deliver(handler, sig) ==
    IF handler = "handle_interruption"
    THEN Raised(<<Interrupted("signal")>>)
    ELSE IF sig = "SIGINT"
    THEN Raised(<<Err("KeyboardInterrupt", "signal")>>)
    ELSE [kind |-> "terminated", chain |-> <<>>]

\* A termination signal is delivered while the caller's code runs before
\* the with statement or after it: no __exit__ is on the way of what the
\* handler raises.
SignalOutside ==
    /\ pc \in {"new", "done"}
    /\ signals < MaxSignals
    /\ signals' = signals + 1
    /\ \E sig \in {"SIGINT", "SIGTERM"} :
          delivered' = [at |-> pc, sig |-> sig,
                        observed |-> Deliver(handlers, sig)]
    /\ UNCHANGED <<attrs, pc, idx, callbacks, enterLog, relLog, exitCalled,
                   bodyExc, exc, suppressed_exc, pending_raise, outcome>>
    /\ UNCHANGED <<storeVars, codecVars, lastOp, reenters, handlers, extraVars>>

NextProc == Next \/ ReEnter \/ SignalOutside

SpecProc == InitLife /\ [][NextProc]_vars

\* C32: the interruption handlers are installed when the Run Context is
\* constructed, whether or not it is ever entered, and Exit does not remove
\* or restore them: a termination signal delivered before Enter or after
\* the scope has exited raises the interrupted condition in the caller's
\* code, where no Run Context handles it.
C32_HandlersStayInstalled ==
    /\ handlers = "handle_interruption"
    /\ delivered.at # "none" =>
          /\ delivered.at \in {"new", "done"}
          /\ delivered.observed = Raised(<<Interrupted("signal")>>)

\* The scope was entered and exited cleanly, with two collaborators
\* released, and a SIGTERM delivered after that raised the interrupted
\* condition.
C32_Witness ==
    /\ ExitDone
    /\ outcome = Clean
    /\ Len(relLog) = 2
    /\ delivered = [at |-> "done", sig |-> "SIGTERM",
                    observed |-> Raised(<<Interrupted("signal")>>)]

\* A SIGINT was delivered to a process whose Run Context was constructed
\* and never entered, and raised the interrupted condition.
C32_BeforeEnter ==
    /\ pc = "new"
    /\ enterLog = <<>>
    /\ delivered = [at |-> "new", sig |-> "SIGINT",
                    observed |-> Raised(<<Interrupted("signal")>>)]

\* C32, step by step: the delivery of a signal outside the scope calls no
\* __exit__ and no release action, and no step changes the handlers.
C32_DeliveryRunsNoExit ==
    [][/\ handlers' = handlers
       /\ (signals' # signals /\ pc \in {"new", "done"}) =>
              UNCHANGED <<pc, callbacks, relLog, exitCalled, outcome>>]_vars
====
